---- MODULE Spec2Model ----
(***************************************************************************)
(* OBD dashboard: the connection supervisor (AppController._obd_worker on  *)
(* a background thread), the device client (OBDService), the shared        *)
(* (_state, _data) cell guarded by _lock, and the Tk main thread that      *)
(* reads the cell in _ui_tick and shuts the application down in _on_close. *)
(***************************************************************************)
EXTENDS Integers, Sequences, FiniteSets, TLC

(* ---------------------------------------------------------------------- *)
(* Bounds and sample inputs                                                *)
(* ---------------------------------------------------------------------- *)

\* The counter of consecutive failed connect() calls saturates here.
MaxFails == 2

\* OBDService._CMDS, in dict (insertion) order.
CmdKeys == <<"rpm", "speed", "coolant_temp", "throttle_pos", "engine_load">>

Keys == {CmdKeys[i] : i \in 1..Len(CmdKeys)}

\* Magnitudes an ECU may answer with, per key.
SampleValues(k) ==
    IF k = "rpm" THEN {0, 2500}
    ELSE IF k = "speed" THEN {45}
    ELSE IF k = "coolant_temp" THEN {90}
    ELSE IF k = "throttle_pos" THEN {15}
    ELSE {30}

\* Python None, and a present value v (a pint Quantity of magnitude v).
None == <<>>
Some(v) == <<v>>

\* The empty dict {}.
EmptyDict == [k \in {} |-> None]

LOG_ENABLED == TRUE

VARIABLES
    pc,          \* position of the _obd_worker thread
    connection,  \* OBDService.connection: "None", "up" (object, is_connected()),
                 \* "down" (object, not is_connected())
    qi,          \* index in CmdKeys of the next key read_snapshot queries
    snapshot,    \* _obd_worker's local snapshot (under construction in read_snapshot)
    _state,      \* AppController._state
    _data,       \* AppController._data
    _lock,       \* holder of AppController._lock: "free", "worker", "ui"
    _running,    \* AppController._running
    loggerOpen,  \* DataLogger._file is open
    uiPc,        \* position of the main thread inside _ui_tick
    tick_state,  \* _ui_tick's local state
    _screen,     \* DashboardUI._screen
    mainPc,      \* position of the main thread: event loop, inside _on_close, exited
    supported,   \* the keys the vehicle's ECU answers with a value (fixed per vehicle)
    \* history variables (observations, never read by the program)
    lastResp,    \* the device's answer to the latest query of this cycle
    published,   \* the last pair written in full by a publish
    fails,       \* consecutive connect() calls that returned False (saturating)
    reconnected, \* this iteration's connect() succeeded right after a failed iteration
    logCalls,    \* calls of logger.log in this iteration
    logArg,      \* argument of the latest logger.log call of this iteration
    logRaised,   \* logger.log raised in this iteration
    \* the presentation (DashboardUI) and its configuration
    SECONDARY_GROUPS,     \* ui_tk.SECONDARY_GROUPS (fixed per installation)
    ROTATION_INTERVAL_S,  \* config.ROTATION_INTERVAL_S (fixed per installation)
    packed,               \* the frames that are packed: subset of the mode names
    timers,               \* DashboardUI's pending root.after callbacks
    _anim_after,          \* DashboardUI._anim_after: None or Some(timer id)
    _rotation_after,      \* DashboardUI._rotation_after: None or Some(timer id)
    _rotation_idx,        \* DashboardUI._rotation_idx
    _live_data,           \* DashboardUI._live_data
    _anim_disc_phase,     \* DashboardUI._anim_disc_phase
    _anim_disc_dots,      \* DashboardUI._anim_disc_dots
    _anim_wait_phase,     \* DashboardUI._anim_wait_phase
    shown,                \* what the widgets of the live frame display
    \* history variables of the presentation
    tickRead,    \* the classification the latest refresh tick dispatched on
    liveFor,     \* whole seconds passed since the Live screen was entered
    autoAdv,     \* timer-driven group advances since the Live screen was entered
    entryIdx,    \* _rotation_idx when the Live screen was entered
    sinceUser    \* seconds since the latest user-triggered advance, if none
                 \* was timer-driven since

vars == <<pc, connection, qi, snapshot, _state, _data, _lock, _running, loggerOpen,
          uiPc, tick_state, _screen, mainPc, supported,
          lastResp, published, fails, reconnected, logCalls, logArg, logRaised,
          SECONDARY_GROUPS, ROTATION_INTERVAL_S, packed, timers, _anim_after,
          _rotation_after, _rotation_idx, _live_data, _anim_disc_phase,
          _anim_disc_dots, _anim_wait_phase, shown,
          tickRead, liveFor, autoAdv, entryIdx, sinceUser>>

workerVars == <<pc, qi, snapshot>>
sharedVars == <<_state, _data, _lock>>
uiVars     == <<uiPc, tick_state, _screen>>
histVars   == <<lastResp, published, fails, reconnected, logCalls, logArg, logRaised>>

\* The application outside the presentation: threads, shared cell, device, log.
appVars == <<pc, connection, qi, snapshot, _state, _data, _lock, _running,
             loggerOpen, uiPc, tick_state, mainPc, supported,
             lastResp, published, fails, reconnected, logCalls, logArg, logRaised>>
\* The installation's configuration.
configVars == <<SECONDARY_GROUPS, ROTATION_INTERVAL_S>>
\* DashboardUI's state besides _screen.
dashVars == <<packed, timers, _anim_after, _rotation_after, _rotation_idx,
              _live_data, _anim_disc_phase, _anim_disc_dots, _anim_wait_phase,
              shown>>
dashHistVars == <<tickRead, liveFor, autoAdv, entryIdx, sinceUser>>
presVars == <<configVars, dashVars, dashHistVars>>

(* ---------------------------------------------------------------------- *)
(* Presentation: configuration and the widgets as built by __init__        *)
(* ---------------------------------------------------------------------- *)

\* config.py: thresholds and bar scale
COOLANT_WARN_C == 95
COOLANT_CRIT_C == 105
RPM_MAX == 7000
RPM_WARN == 5500
RPM_CRIT == 6500

\* config.py: the rotation interval as shipped
DefaultRotationInterval == 8

\* config.py: colours
C_TEXT_PRI == "#f0f0f0"
C_RPM      == "#ff6b00"
C_GOOD     == "#00cc66"
C_WARN     == "#ffcc00"
C_CRIT     == "#ff3333"
C_NEUTRAL  == "#aaaaaa"

\* ui_tk.SECONDARY_GROUPS: the group that is configured, as
\* (data_key, display_label, formatter) triples
Group1 ==
    << <<"coolant_temp", "COOLANT", "_fmt_coolant">>,
       <<"throttle_pos", "THROTTLE", "_fmt_throttle">>,
       <<"engine_load", "ENG LOAD", "_fmt_load">> >>

\* The example second group of ui_tk.py (in a comment there): its first two
\* keys are not among the PIDs OBDService queries.
Group2 ==
    << <<"intake_temp", "INTAKE TEMP", "_fmt_intake">>,
       <<"battery_v", "BATTERY", "_fmt_battery">>,
       <<"engine_load", "ENG LOAD", "_fmt_load">> >>

\* The installation as shipped: one group, rotation every 8 s.
ShippedConfig ==
    /\ SECONDARY_GROUPS = <<Group1>>
    /\ ROTATION_INTERVAL_S = DefaultRotationInterval

\* Texts of the value labels: a placeholder or a formatted number with its
\* unit suffix.
NoSpeed == <<"--">>
NoRpm   == <<"----">>
NoValue == <<"--">>
Text(n, suffix) == <<"num", n, suffix>>

\* A bar canvas with no fill rectangle.
EmptyBar == <<>>

\* DashboardUI.__init__ and _build_*: no frame packed, no timer of the
\* dashboard pending, the widgets with their construction-time texts.
InitDashboard ==
    /\ packed = {}
    /\ timers = {}
    /\ _anim_after = None
    /\ _rotation_after = None
    /\ _rotation_idx = 0
    /\ _live_data = EmptyDict
    /\ _anim_disc_phase = 0
    /\ _anim_disc_dots = 0
    /\ _anim_wait_phase = 0
    /\ shown = [speed |-> NoSpeed, rpm |-> NoRpm, rpm_fg |-> C_RPM,
                rpm_bar |-> EmptyBar,
                slots |-> [i \in 1..3 |->
                    [title |-> "---", text |-> NoValue, fg |-> C_TEXT_PRI,
                     bar |-> EmptyBar]]]
    /\ tickRead = "none"
    /\ liveFor = 0
    /\ autoAdv = 0
    /\ entryIdx = 0
    /\ sinceUser = None

InitProgram ==
    /\ InitDashboard
    /\ pc = "loop"
    /\ connection = "None"
    /\ qi = 1
    /\ snapshot = EmptyDict
    /\ _state = "disconnected"
    /\ _data = EmptyDict
    /\ _lock = "free"
    /\ _running = TRUE
    /\ loggerOpen = TRUE
    /\ uiPc = "idle"
    /\ tick_state = "none"
    /\ _screen = "None"
    /\ mainPc = "mainloop"
    /\ lastResp = <<"none">>
    /\ published = <<"disconnected", EmptyDict>>
    /\ fails = 0
    /\ reconnected = FALSE
    /\ logCalls = 0
    /\ logArg = EmptyDict
    /\ logRaised = FALSE

\* A vehicle that answers every configured PID.
Init == InitProgram /\ supported = Keys /\ ShippedConfig

\* A vehicle that answers engine speed and vehicle speed only.
InitTwoPids == InitProgram /\ supported = {"rpm", "speed"} /\ ShippedConfig

(* ---------------------------------------------------------------------- *)
(* Pure helpers                                                            *)
(* ---------------------------------------------------------------------- *)

Min(a, b) == IF a < b THEN a ELSE b

\* d[k] = v added to dict d (a dict comprehension adds one key per step).
Put(d, k, v) == [x \in (DOMAIN d) \cup {k} |-> IF x = k THEN v ELSE d[x]]

\* Mutant: truthiness instead of `is not None` (a zero magnitude is falsy).
HasData_Truthy(d) == \E k \in DOMAIN d : d[k] # None /\ d[k] # Some(0)

\* Mutant: all(...) instead of any(...).
HasData_All(d) == \A k \in DOMAIN d : d[k] # None

\* any(v is not None for v in snapshot.values())
HasData(d) == \E k \in DOMAIN d : d[k] # None

\* "live" if has_data else "waiting"
Classify(has_data) == IF has_data THEN "live" ELSE "waiting"

\* {k: None for k in self._CMDS}
AllNone == [k \in Keys |-> None]

\* What connection.query(cmd) can do, by the state of self.connection when the
\* query runs: a response carrying a value, a null response, or an exception
\* (self.connection is None: AttributeError; a closed or dropped port, or a
\* PID the vehicle does not support, answers with a null response or raises).
Responses(k) ==
    IF connection = "None" THEN {<<"exc">>}
    ELSE IF connection = "down" THEN {<<"null">>, <<"exc">>}
    ELSE IF k \notin supported THEN {<<"null">>, <<"exc">>}
    ELSE {<<"value", v>> : v \in SampleValues(k)} \cup {<<"null">>, <<"exc">>}

\* OBDService._safe_query: None on any failure or null response, else r.value.
SafeQuery(resp) == IF resp[1] = "value" THEN Some(resp[2]) ELSE None

\* Mutant: the with block does not exclude the other thread.
AcquireNoLock(t) == _lock' = t

\* Mutant: the lock is still held after the with block.
Release_Never(t) == _lock' = t

\* with self._lock: entry and exit
Acquire(t) == _lock = "free" /\ _lock' = t
Release(t) == _lock' = "free"

\* The process is alive until root.destroy() ends mainloop and main() returns;
\* the daemon worker thread is killed with it.
Alive == mainPc # "exit"

\* The observations of one loop iteration end with it.
EndOfIteration ==
    /\ reconnected' = FALSE
    /\ logCalls' = 0 /\ logArg' = EmptyDict /\ logRaised' = FALSE
    /\ lastResp' = <<"none">>
    /\ UNCHANGED <<published, fails>>

(* ---------------------------------------------------------------------- *)
(* AppController._obd_worker (background thread)                           *)
(* ---------------------------------------------------------------------- *)

\* Mutant: the loop gives up after MaxFails consecutive failed connects.
W_Loop_GiveUp ==
    /\ Alive /\ pc = "loop"
    /\ pc' = IF _running /\ fails < MaxFails THEN "ensure" ELSE "done"
    /\ UNCHANGED <<connection, qi, snapshot, _running, loggerOpen, mainPc, supported>>
    /\ UNCHANGED presVars
    /\ UNCHANGED sharedVars /\ UNCHANGED uiVars /\ UNCHANGED histVars

\* while self._running:
W_Loop ==
    /\ Alive /\ pc = "loop"
    /\ pc' = IF _running THEN "ensure" ELSE "done"
    /\ UNCHANGED <<connection, qi, snapshot, _running, loggerOpen, mainPc, supported>>
    /\ UNCHANGED presVars
    /\ UNCHANGED sharedVars /\ UNCHANGED uiVars /\ UNCHANGED histVars

\* ensure_connected: the left operand of `self.connection and ...`
W_Ensure ==
    /\ Alive /\ pc = "ensure"
    /\ pc' = IF connection = "None" THEN "disconnect" ELSE "ensure_isconn"
    /\ UNCHANGED <<connection, qi, snapshot, _running, loggerOpen, mainPc, supported>>
    /\ UNCHANGED presVars
    /\ UNCHANGED sharedVars /\ UNCHANGED uiVars /\ UNCHANGED histVars

\* Mutant: a handle that is not connected is replaced without disconnect().
W_EnsureIsConn_NoDisconnect ==
    /\ Alive /\ pc = "ensure_isconn"
    /\ pc' = CASE connection = "None" -> "crashed"
               [] connection = "up"   -> "read_chk"
               [] OTHER               -> "connect"
    /\ UNCHANGED <<connection, qi, snapshot, _running, loggerOpen, mainPc, supported>>
    /\ UNCHANGED presVars
    /\ UNCHANGED sharedVars /\ UNCHANGED uiVars /\ UNCHANGED histVars

\* ensure_connected: self.connection.is_connected() on a second load of the
\* attribute; on None this raises AttributeError, which nothing catches.
W_EnsureIsConn ==
    /\ Alive /\ pc = "ensure_isconn"
    /\ pc' = CASE connection = "None" -> "crashed"
               [] connection = "up"   -> "read_chk"
               [] OTHER               -> "disconnect"
    /\ UNCHANGED <<connection, qi, snapshot, _running, loggerOpen, mainPc, supported>>
    /\ UNCHANGED presVars
    /\ UNCHANGED sharedVars /\ UNCHANGED uiVars /\ UNCHANGED histVars

\* OBDService.disconnect, called by ensure_connected
W_Disconnect ==
    /\ Alive /\ pc = "disconnect"
    /\ connection' = "None"
    /\ pc' = "connect"
    /\ UNCHANGED <<qi, snapshot, _running, loggerOpen, mainPc, supported>>
    /\ UNCHANGED presVars
    /\ UNCHANGED sharedVars /\ UNCHANGED uiVars /\ UNCHANGED histVars

\* Mutant: a failed connect goes straight to the reconnect sleep, publishing nothing.
W_Connect_NoPublish ==
    /\ Alive /\ pc = "connect"
    /\ \E outcome \in {"ok", "notconn", "exc"} :
         /\ connection' = CASE outcome = "ok"      -> "up"
                            [] outcome = "notconn" -> "down"
                            [] OTHER               -> "None"
         /\ pc' = IF outcome = "ok" THEN "read_chk" ELSE "sleep_reconnect"
         /\ fails' = IF outcome = "ok" THEN 0 ELSE Min(fails + 1, MaxFails)
         /\ reconnected' = (outcome = "ok" /\ fails >= 1)
    /\ UNCHANGED <<qi, snapshot, _running, loggerOpen, mainPc, supported,
                   lastResp, published, logCalls, logArg, logRaised>>
    /\ UNCHANGED presVars
    /\ UNCHANGED sharedVars /\ UNCHANGED uiVars

\* OBDService.connect: obd.OBD(...) returns a connected object, returns an
\* object that is not connected, or raises.
W_Connect ==
    /\ Alive /\ pc = "connect"
    /\ \E outcome \in {"ok", "notconn", "exc"} :
         /\ connection' = CASE outcome = "ok"      -> "up"
                            [] outcome = "notconn" -> "down"
                            [] OTHER               -> "None"
         /\ pc' = IF outcome = "ok" THEN "read_chk" ELSE "pub_disc"
         /\ fails' = IF outcome = "ok" THEN 0 ELSE Min(fails + 1, MaxFails)
         /\ reconnected' = (outcome = "ok" /\ fails >= 1)
    /\ UNCHANGED <<qi, snapshot, _running, loggerOpen, mainPc, supported,
                   lastResp, published, logCalls, logArg, logRaised>>
    /\ UNCHANGED presVars
    /\ UNCHANGED sharedVars /\ UNCHANGED uiVars

\* if not connected: with self._lock: self._state = "disconnected"
W_PubDisc ==
    /\ Alive /\ pc = "pub_disc"
    /\ Acquire("worker")
    /\ _state' = "disconnected"
    /\ pc' = "pub_disc_data"
    /\ UNCHANGED <<connection, qi, snapshot, _data, _running, loggerOpen, mainPc,
                   supported>>
    /\ UNCHANGED presVars
    /\ UNCHANGED uiVars /\ UNCHANGED histVars

\* Mutant: the Disconnected publish leaves the previous snapshot in _data.
W_PubDiscData_KeepData ==
    /\ Alive /\ pc = "pub_disc_data"
    /\ _data' = _data
    /\ Release("worker")
    /\ published' = <<_state, EmptyDict>>
    /\ pc' = "sleep_reconnect"
    /\ UNCHANGED <<connection, qi, snapshot, _state, _running, loggerOpen, mainPc,
                   supported,
                   lastResp, fails, reconnected, logCalls, logArg, logRaised>>
    /\ UNCHANGED presVars
    /\ UNCHANGED uiVars

\* self._data = {} and the end of the with block
W_PubDiscData ==
    /\ Alive /\ pc = "pub_disc_data"
    /\ _data' = EmptyDict
    /\ Release("worker")
    /\ published' = <<_state, EmptyDict>>
    /\ pc' = "sleep_reconnect"
    /\ UNCHANGED <<connection, qi, snapshot, _state, _running, loggerOpen, mainPc,
                   supported,
                   lastResp, fails, reconnected, logCalls, logArg, logRaised>>
    /\ UNCHANGED presVars
    /\ UNCHANGED uiVars

\* time.sleep(RECONNECT_DELAY_S); continue
W_SleepReconnect ==
    /\ Alive /\ pc = "sleep_reconnect"
    /\ pc' = "loop"
    /\ EndOfIteration
    /\ UNCHANGED <<connection, qi, snapshot, _running, loggerOpen, mainPc, supported>>
    /\ UNCHANGED presVars
    /\ UNCHANGED sharedVars /\ UNCHANGED uiVars

\* read_snapshot: the left operand of `not self.connection or ...`
W_ReadChk ==
    /\ Alive /\ pc = "read_chk"
    /\ IF connection = "None"
       THEN pc' = "publish" /\ snapshot' = AllNone
       ELSE pc' = "read_isconn" /\ snapshot' = snapshot
    /\ qi' = 1
    /\ UNCHANGED <<connection, _running, loggerOpen, mainPc, supported>>
    /\ UNCHANGED presVars
    /\ UNCHANGED sharedVars /\ UNCHANGED uiVars /\ UNCHANGED histVars

\* Mutant: read_snapshot queries whatever is_connected() answers.
W_ReadIsConn_QueryAnyway ==
    /\ Alive /\ pc = "read_isconn"
    /\ CASE connection = "None" -> pc' = "crashed" /\ snapshot' = snapshot
         [] OTHER               -> pc' = "query" /\ snapshot' = EmptyDict
    /\ UNCHANGED <<connection, qi, _running, loggerOpen, mainPc, supported>>
    /\ UNCHANGED presVars
    /\ UNCHANGED sharedVars /\ UNCHANGED uiVars /\ UNCHANGED histVars

\* read_snapshot: self.connection.is_connected() on a second load
W_ReadIsConn ==
    /\ Alive /\ pc = "read_isconn"
    /\ CASE connection = "None" -> pc' = "crashed" /\ snapshot' = snapshot
         [] connection = "up"   -> pc' = "query" /\ snapshot' = EmptyDict
         [] OTHER               -> pc' = "publish" /\ snapshot' = AllNone
    /\ UNCHANGED <<connection, qi, _running, loggerOpen, mainPc, supported>>
    /\ UNCHANGED presVars
    /\ UNCHANGED sharedVars /\ UNCHANGED uiVars /\ UNCHANGED histVars

\* Mutant: an exception raised by a query ends the pass; the keys not yet
\* queried are left absent.
W_Query_AbortOnError ==
    /\ Alive /\ pc = "query"
    /\ \E resp \in Responses(CmdKeys[qi]) :
         /\ snapshot' = IF resp[1] = "exc"
                        THEN [k \in Keys |-> IF k \in DOMAIN snapshot
                                             THEN snapshot[k] ELSE None]
                        ELSE Put(snapshot, CmdKeys[qi], SafeQuery(resp))
         /\ lastResp' = resp
         /\ pc' = IF qi = Len(CmdKeys) \/ resp[1] = "exc" THEN "publish" ELSE "query"
    /\ qi' = qi + 1
    /\ UNCHANGED <<connection, _running, loggerOpen, mainPc, supported,
                   published, fails, reconnected, logCalls, logArg, logRaised>>
    /\ UNCHANGED presVars
    /\ UNCHANGED sharedVars /\ UNCHANGED uiVars

\* read_snapshot: one step of {key: self._safe_query(cmd) for key, cmd in ...}
W_Query ==
    /\ Alive /\ pc = "query"
    /\ \E resp \in Responses(CmdKeys[qi]) :
         /\ snapshot' = Put(snapshot, CmdKeys[qi], SafeQuery(resp))
         /\ lastResp' = resp
    /\ qi' = qi + 1
    /\ pc' = IF qi = Len(CmdKeys) THEN "publish" ELSE "query"
    /\ UNCHANGED <<connection, _running, loggerOpen, mainPc, supported,
                   published, fails, reconnected, logCalls, logArg, logRaised>>
    /\ UNCHANGED presVars
    /\ UNCHANGED sharedVars /\ UNCHANGED uiVars

\* has_data = any(...); with self._lock: self._state = "live" if has_data else "waiting"
W_Publish ==
    /\ Alive /\ pc = "publish"
    /\ Acquire("worker")
    /\ _state' = Classify(HasData(snapshot))
    /\ pc' = "publish_data"
    /\ UNCHANGED <<connection, qi, snapshot, _data, _running, loggerOpen, mainPc,
                   supported>>
    /\ UNCHANGED presVars
    /\ UNCHANGED uiVars /\ UNCHANGED histVars

\* Mutant: a snapshot without data does not replace the last one that had some.
W_PublishData_KeepLastGood ==
    /\ Alive /\ pc = "publish_data"
    /\ _data' = IF HasData(snapshot) THEN snapshot ELSE _data
    /\ Release("worker")
    /\ published' = <<_state, snapshot>>
    /\ pc' = "log"
    /\ UNCHANGED <<connection, qi, snapshot, _state, _running, loggerOpen, mainPc,
                   supported,
                   lastResp, fails, reconnected, logCalls, logArg, logRaised>>
    /\ UNCHANGED presVars
    /\ UNCHANGED uiVars

\* self._data = snapshot and the end of the with block
W_PublishData ==
    /\ Alive /\ pc = "publish_data"
    /\ _data' = snapshot
    /\ Release("worker")
    /\ published' = <<_state, snapshot>>
    /\ pc' = "log"
    /\ UNCHANGED <<connection, qi, snapshot, _state, _running, loggerOpen, mainPc,
                   supported,
                   lastResp, fails, reconnected, logCalls, logArg, logRaised>>
    /\ UNCHANGED presVars
    /\ UNCHANGED uiVars

\* Mutant: the has_data guard is missing; every poll cycle is logged.
W_Log_Always ==
    /\ Alive /\ pc = "log"
    /\ logCalls' = logCalls + 1
    /\ logArg' = snapshot
    /\ \E raised \in (IF loggerOpen THEN BOOLEAN ELSE {TRUE}) : logRaised' = raised
    /\ pc' = "sleep_poll"
    /\ UNCHANGED <<connection, qi, snapshot, _running, loggerOpen, mainPc, supported,
                   lastResp, published, fails, reconnected>>
    /\ UNCHANGED presVars
    /\ UNCHANGED sharedVars /\ UNCHANGED uiVars

\* Mutant: no try/except around logger.log; an exception ends the thread.
W_Log_Propagate ==
    /\ Alive /\ pc = "log"
    /\ IF HasData(snapshot) /\ LOG_ENABLED
       THEN /\ logCalls' = logCalls + 1
            /\ logArg' = snapshot
            /\ \E raised \in (IF loggerOpen THEN BOOLEAN ELSE {TRUE}) :
                 /\ logRaised' = raised
                 /\ pc' = IF raised THEN "crashed" ELSE "sleep_poll"
       ELSE pc' = "sleep_poll" /\ UNCHANGED <<logCalls, logArg, logRaised>>
    /\ UNCHANGED <<connection, qi, snapshot, _running, loggerOpen, mainPc, supported,
                   lastResp, published, fails, reconnected>>
    /\ UNCHANGED presVars
    /\ UNCHANGED sharedVars /\ UNCHANGED uiVars

\* if has_data and self.logger: try: self.logger.log(snapshot) except Exception: pass
\* A write to a closed file raises; a write to an open one may fail too.
W_Log ==
    /\ Alive /\ pc = "log"
    /\ IF HasData(snapshot) /\ LOG_ENABLED
       THEN /\ logCalls' = logCalls + 1
            /\ logArg' = snapshot
            /\ \E raised \in (IF loggerOpen THEN BOOLEAN ELSE {TRUE}) :
                 logRaised' = raised
       ELSE UNCHANGED <<logCalls, logArg, logRaised>>
    /\ pc' = "sleep_poll"
    /\ UNCHANGED <<connection, qi, snapshot, _running, loggerOpen, mainPc, supported,
                   lastResp, published, fails, reconnected>>
    /\ UNCHANGED presVars
    /\ UNCHANGED sharedVars /\ UNCHANGED uiVars

\* time.sleep(poll_interval)
W_SleepPoll ==
    /\ Alive /\ pc = "sleep_poll"
    /\ pc' = "loop"
    /\ snapshot' = EmptyDict
    /\ EndOfIteration
    /\ UNCHANGED <<connection, qi, _running, loggerOpen, mainPc, supported>>
    /\ UNCHANGED presVars
    /\ UNCHANGED sharedVars /\ UNCHANGED uiVars

Worker ==
    \/ W_Loop \/ W_Ensure \/ W_EnsureIsConn \/ W_Disconnect \/ W_Connect
    \/ W_PubDisc \/ W_PubDiscData \/ W_SleepReconnect
    \/ W_ReadChk \/ W_ReadIsConn \/ W_Query
    \/ W_Publish \/ W_PublishData \/ W_Log \/ W_SleepPoll

(* ---------------------------------------------------------------------- *)
(* The adapter / vehicle                                                   *)
(* ---------------------------------------------------------------------- *)

\* The link drops: the open connection stops reporting is_connected().
LinkDrop ==
    /\ Alive /\ connection = "up"
    /\ connection' = "down"
    /\ UNCHANGED <<_running, loggerOpen, mainPc, supported>>
    /\ UNCHANGED presVars
    /\ UNCHANGED workerVars /\ UNCHANGED sharedVars /\ UNCHANGED uiVars
    /\ UNCHANGED histVars

(* ---------------------------------------------------------------------- *)
(* Tk main thread: AppController._ui_tick, _on_close, the Escape binding   *)
(* ---------------------------------------------------------------------- *)

\* with self._lock: state = self._state
UI_ReadState ==
    /\ mainPc = "mainloop" /\ uiPc = "idle"
    /\ Acquire("ui")
    /\ tick_state' = _state
    /\ uiPc' = "read_data"
    /\ UNCHANGED <<connection, _state, _data, _running, loggerOpen, mainPc,
                   supported, _screen>>
    /\ UNCHANGED presVars
    /\ UNCHANGED workerVars /\ UNCHANGED histVars

\* data = dict(self._data), the end of the with block, then the dispatch to
\* ui.show_disconnected / show_waiting / show_live(data) and the re-arming
\* root.after(...); the locals go out of scope.
UI_ReadData ==
    /\ mainPc = "mainloop" /\ uiPc = "read_data"
    /\ Release("ui")
    /\ _screen' = IF tick_state \in {"disconnected", "waiting"} THEN tick_state
                  ELSE "live"
    /\ tick_state' = "none"
    /\ uiPc' = "idle"
    /\ UNCHANGED <<connection, _state, _data, _running, loggerOpen, mainPc, supported>>
    /\ UNCHANGED presVars
    /\ UNCHANGED workerVars /\ UNCHANGED histVars

\* _on_close: self._running = False
Close_Running ==
    /\ mainPc = "mainloop" /\ uiPc = "idle"
    /\ _running' = FALSE
    /\ mainPc' = "close_disconnect"
    /\ UNCHANGED <<connection, loggerOpen, supported>>
    /\ UNCHANGED presVars
    /\ UNCHANGED workerVars /\ UNCHANGED sharedVars /\ UNCHANGED uiVars
    /\ UNCHANGED histVars

\* _on_close: self.obd.disconnect()
Close_Disconnect ==
    /\ mainPc = "close_disconnect"
    /\ connection' = "None"
    /\ mainPc' = "close_logger"
    /\ UNCHANGED <<_running, loggerOpen, supported>>
    /\ UNCHANGED presVars
    /\ UNCHANGED workerVars /\ UNCHANGED sharedVars /\ UNCHANGED uiVars
    /\ UNCHANGED histVars

\* _on_close: if self.logger: self.logger.close()
Close_Logger ==
    /\ mainPc = "close_logger"
    /\ loggerOpen' = IF LOG_ENABLED THEN FALSE ELSE loggerOpen
    /\ mainPc' = "close_destroy"
    /\ UNCHANGED <<connection, _running, supported>>
    /\ UNCHANGED presVars
    /\ UNCHANGED workerVars /\ UNCHANGED sharedVars /\ UNCHANGED uiVars
    /\ UNCHANGED histVars

\* root.destroy() ends mainloop, main() returns and the process exits: the
\* daemon worker thread is killed wherever it is and the process's memory is
\* gone. What outlives the program is whether the adapter connection and the
\* log file were closed by it.
ProcessExit ==
    /\ mainPc' = "exit"
    /\ pc' = "killed" /\ qi' = 1 /\ snapshot' = EmptyDict
    /\ _state' = "disconnected" /\ _data' = EmptyDict /\ _lock' = "free"
    /\ uiPc' = "idle" /\ tick_state' = "none" /\ _screen' = "None"
    /\ lastResp' = <<"none">> /\ published' = <<"disconnected", EmptyDict>>
    /\ fails' = 0 /\ reconnected' = FALSE
    /\ logCalls' = 0 /\ logArg' = EmptyDict /\ logRaised' = FALSE
    /\ UNCHANGED <<connection, _running, loggerOpen, supported>>
    /\ UNCHANGED presVars

\* _on_close: self.root.destroy()
Close_Destroy ==
    /\ mainPc = "close_destroy"
    /\ ProcessExit

\* <Escape>: lambda e: self.root.destroy()
EscapeKey ==
    /\ mainPc = "mainloop" /\ uiPc = "idle"
    /\ ProcessExit

Main ==
    \/ UI_ReadState \/ UI_ReadData
    \/ Close_Running \/ Close_Disconnect \/ Close_Logger \/ Close_Destroy
    \/ EscapeKey

Next == Worker \/ LinkDrop \/ Main

Spec == Init /\ [][Next]_vars

\* The worker thread is scheduled whenever it can run, and gets the lock
\* although the refresh tick takes it again and again (the tick holds it for
\* two assignments, every 200 ms); a tick that holds the lock releases it.
FairSpec ==
    InitTwoPids /\ [][Next]_vars /\ SF_vars(Worker) /\ WF_vars(UI_ReadData)

(* ---------------------------------------------------------------------- *)
(* Presentation: DashboardUI (ui_tk.py), driven by _ui_tick and Tk timers  *)
(* ---------------------------------------------------------------------- *)

\* DashboardUI's attributes and widgets as one value, so that a method is a
\* function from the object before the call to the object after it.
Dash ==
    [_screen |-> _screen, packed |-> packed, timers |-> timers,
     _anim_after |-> _anim_after, _rotation_after |-> _rotation_after,
     _rotation_idx |-> _rotation_idx, _live_data |-> _live_data,
     _anim_disc_phase |-> _anim_disc_phase, _anim_disc_dots |-> _anim_disc_dots,
     _anim_wait_phase |-> _anim_wait_phase, shown |-> shown]

\* The object after a handler has run.
SetDash(u) ==
    /\ _screen' = u._screen
    /\ packed' = u.packed
    /\ timers' = u.timers
    /\ _anim_after' = u._anim_after
    /\ _rotation_after' = u._rotation_after
    /\ _rotation_idx' = u._rotation_idx
    /\ _live_data' = u._live_data
    /\ _anim_disc_phase' = u._anim_disc_phase
    /\ _anim_disc_dots' = u._anim_disc_dots
    /\ _anim_wait_phase' = u._anim_wait_phase
    /\ shown' = u.shown

\* data.get(key)
Get(d, k) == IF k \in DOMAIN d THEN d[k] ELSE None

Max(a, b) == IF a > b THEN a ELSE b

\* f"{x:.0f}" of the non-negative quotient n/d: the nearest integer (no
\* quotient formed here lies exactly between two integers).
RoundDiv(n, d) == (2 * n + d) \div (2 * d)

(* Tk timers. A pending callback is [id, cb, left]: left is the number of    *)
(* whole seconds that have to pass before it is due; callbacks due within    *)
(* the same second run in any order.                                         *)

\* The id root.after returns: one that no pending callback has and that the
\* other stored handle does not hold (Tk never reuses an id).
NewId(ts, other) ==
    LET used == {t.id : t \in ts} \cup {other[i] : i \in DOMAIN other}
    IN  CHOOSE n \in 1..(Cardinality(used) + 1) :
            n \notin used /\ \A k \in 1..(n - 1) : k \in used

\* root.after(ms, cb), the id being `id`
RootAfter(ts, id, ms, cb) == ts \cup {[id |-> id, cb |-> cb, left |-> ms \div 1000]}

\* root.after_cancel(h): a no-op when the callback has run already
AfterCancel(ts, h) == {t \in ts : Some(t.id) # h}

\* Mutant: the handle is dropped and the callback is left pending.
HideAll_NoCancel(u) ==
    [u EXCEPT !.packed = {}, !._anim_after = None, !._rotation_after = None]

\* _hide_all
HideAll(u) ==
    [u EXCEPT !.packed = {},
              !.timers = AfterCancel(AfterCancel(@, u._anim_after), u._rotation_after),
              !._anim_after = None,
              !._rotation_after = None]

\* _animate_disc
AnimateDisc(u) ==
    IF u._screen # "disconnected" THEN u
    ELSE LET id == NewId(u.timers, u._rotation_after)
         IN  [u EXCEPT !._anim_disc_phase = (@ + 1) % 16,
                       !._anim_disc_dots = (@ + 1) % 4,
                       !.timers = RootAfter(@, id, 350, "_animate_disc"),
                       !._anim_after = Some(id)]

\* _animate_wait
AnimateWait(u) ==
    IF u._screen # "waiting" THEN u
    ELSE LET id == NewId(u.timers, u._rotation_after)
         IN  [u EXCEPT !._anim_wait_phase = (@ + 1) % 40,
                       !.timers = RootAfter(@, id, 50, "_animate_wait"),
                       !._anim_after = Some(id)]

\* show_disconnected
ShowDisconnected(u) ==
    IF u._screen = "disconnected" THEN u
    ELSE AnimateDisc([HideAll(u) EXCEPT !.packed = @ \cup {"disconnected"},
                                        !._screen = "disconnected",
                                        !._anim_disc_phase = 0,
                                        !._anim_disc_dots = 0])

\* show_waiting
ShowWaiting(u) ==
    IF u._screen = "waiting" THEN u
    ELSE AnimateWait([HideAll(u) EXCEPT !.packed = @ \cup {"waiting"},
                                        !._screen = "waiting",
                                        !._anim_wait_phase = 0])

\* Mutant: a timer is armed whatever the configuration.
StartRotation_Always(u) ==
    LET id == NewId(u.timers, u._anim_after)
    IN  [u EXCEPT !.timers = RootAfter(@, id, Max(ROTATION_INTERVAL_S, 0) * 1000, "_rotate"),
                  !._rotation_after = Some(id)]

\* _start_rotation
StartRotation(u) ==
    IF ROTATION_INTERVAL_S > 0 /\ Len(SECONDARY_GROUPS) > 1
    THEN LET id == NewId(u.timers, u._anim_after)
         IN  [u EXCEPT !.timers = RootAfter(@, id, ROTATION_INTERVAL_S * 1000, "_rotate"),
                       !._rotation_after = Some(id)]
    ELSE u

\* _draw_bar on a laid-out canvas (the live frame is packed whenever it is
\* drawn on): the fill in percent of the canvas width, for pct = num/den.
DrawBar(num, den, color) ==
    LET fill_w == Max(0, Min((100 * num) \div den, 100))
    IN  IF fill_w > 0 THEN <<fill_w, color>> ELSE EmptyBar

\* Mutant: no warning tier.
RpmColor_NoWarn(val) == IF val >= RPM_CRIT THEN C_CRIT ELSE C_RPM

\* _rpm_color
RpmColor(val) ==
    IF val >= RPM_CRIT THEN C_CRIT
    ELSE IF val >= RPM_WARN THEN C_WARN
    ELSE C_RPM

\* _coolant_color
CoolantColor(val_c) ==
    IF val_c >= COOLANT_CRIT_C THEN C_CRIT
    ELSE IF val_c >= COOLANT_WARN_C THEN C_WARN
    ELSE C_GOOD

\* _fmt_coolant (TEMP_UNIT = "C"), _fmt_throttle, _fmt_load: the triple
\* (display string, pct as numerator and denominator, colour) as a record.
FmtCoolant(c) ==
    [disp |-> Text(c, "C"), num |-> Min(c, 120), den |-> 120, color |-> CoolantColor(c)]

FmtThrottle(v) ==
    [disp |-> Text(v, "%"), num |-> v, den |-> 100, color |-> C_NEUTRAL]

FmtLoad(v) ==
    [disp |-> Text(v, "%"), num |-> v, den |-> 100,
     color |-> IF v < 50 THEN C_GOOD ELSE IF v < 80 THEN C_WARN ELSE C_CRIT]

\* fmt(raw) for the formatter named in a group
Fmt(fmt, raw) ==
    CASE fmt = "_fmt_coolant" -> FmtCoolant(raw)
      [] fmt = "_fmt_throttle" -> FmtThrottle(raw)
      [] fmt = "_fmt_load" -> FmtLoad(raw)

\* Mutant: the slot of an absent key is left as it was.
SlotAbsent_Stale(w) == w

\* _refresh_live, `if raw is None`: the slot's value label and bar
SlotAbsent(w) == [w EXCEPT !.text = NoValue, !.fg = C_NEUTRAL, !.bar = DrawBar(0, 1, C_NEUTRAL)]

\* _refresh_live, else: the slot's value label and bar
SlotValue(w, f) ==
    [w EXCEPT !.text = f.disp, !.fg = f.color, !.bar = DrawBar(f.num, f.den, f.color)]

\* _refresh_live: one secondary panel
RefreshSlot(w, entry, data) ==
    LET raw     == Get(data, entry[1])
        titled  == [w EXCEPT !.title = entry[2]]
    IN  IF raw = None THEN SlotAbsent(titled) ELSE SlotValue(titled, Fmt(entry[3], raw[1]))

\* _refresh_live: the speed label (SPEED_UNIT = "mph"; the device reports
\* km/h); `if speed:` is false for None and for a zero quantity
RefreshSpeed(s, data) ==
    LET speed == Get(data, "speed")
    IN  IF speed # None /\ speed # Some(0)
        THEN [s EXCEPT !.speed = Text(RoundDiv(speed[1] * 621371, 1000000), "")]
        ELSE [s EXCEPT !.speed = NoSpeed]

\* _refresh_live: the rpm label and bar; `if rpm:` likewise
RefreshRpm(s, data) ==
    LET rpm == Get(data, "rpm")
    IN  IF rpm # None /\ rpm # Some(0)
        THEN [s EXCEPT !.rpm = Text(rpm[1], ""),
                       !.rpm_fg = RpmColor(rpm[1]),
                       !.rpm_bar = DrawBar(rpm[1], RPM_MAX, RpmColor(rpm[1]))]
        ELSE [s EXCEPT !.rpm = NoRpm, !.rpm_fg = C_RPM, !.rpm_bar = DrawBar(0, 1, C_RPM)]

\* Mutant: every render moves on to the next group.
RefreshLive_Cycling(u, data) ==
    LET group == SECONDARY_GROUPS[(u._rotation_idx % Len(SECONDARY_GROUPS)) + 1]
        s     == RefreshRpm(RefreshSpeed(u.shown, data), data)
    IN  [u EXCEPT !.shown =
            [s EXCEPT !.slots = [i \in 1..3 |-> RefreshSlot(s.slots[i], group[i], data)]],
                  !._rotation_idx = (@ + 1) % Len(SECONDARY_GROUPS)]

\* _refresh_live
RefreshLive(u, data) ==
    LET group == SECONDARY_GROUPS[(u._rotation_idx % Len(SECONDARY_GROUPS)) + 1]
        s     == RefreshRpm(RefreshSpeed(u.shown, data), data)
    IN  [u EXCEPT !.shown =
            [s EXCEPT !.slots = [i \in 1..3 |-> RefreshSlot(s.slots[i], group[i], data)]]]

\* Mutant: the rotation timer is started on every call.
ShowLive_RestartRotation(u, data) ==
    LET v == IF u._screen # "live"
             THEN [HideAll(u) EXCEPT !.packed = @ \cup {"live"}, !._screen = "live"]
             ELSE u
    IN  RefreshLive([StartRotation(v) EXCEPT !._live_data = data], data)

\* show_live
ShowLive(u, data) ==
    LET v == IF u._screen # "live"
             THEN StartRotation([HideAll(u) EXCEPT !.packed = @ \cup {"live"},
                                                   !._screen = "live"])
             ELSE u
    IN  RefreshLive([v EXCEPT !._live_data = data], data)

\* _rotate
Rotate(u) ==
    IF u._screen # "live" THEN u
    ELSE StartRotation(RefreshLive(
             [u EXCEPT !._rotation_idx = (@ + 1) % Len(SECONDARY_GROUPS)],
             u._live_data))

\* Mutant: every classification but Disconnected is shown as Live.
Dispatch_NoWaiting(u, state, data) ==
    IF state = "disconnected" THEN ShowDisconnected(u) ELSE ShowLive(u, data)

\* _ui_tick: the dispatch on the classification read
Dispatch(u, state, data) ==
    IF state = "disconnected" THEN ShowDisconnected(u)
    ELSE IF state = "waiting" THEN ShowWaiting(u)
    ELSE ShowLive(u, data)

(* The inputs of the presentation *)

\* Longest stay on the Live screen that is followed second by second.
MaxTime == 17

\* Most rotation callbacks pending at once.
MaxTimers == 2

\* Animation frames followed per visit of a screen.
MaxFrames == 3

\* Magnitudes a snapshot carries for a key the vehicle answers: around the
\* thresholds, and zero.
DashValues(k) ==
    CASE k = "rpm" -> {0, 2500, 5500, 6500}
      [] k = "speed" -> {0, 45}
      [] k = "coolant_temp" -> {90, 95, 105}
      [] k = "throttle_pos" -> {15}
      [] k = "engine_load" -> {30}

Opt(k) == {None} \cup (IF k \in supported THEN {Some(v) : v \in DashValues(k)} ELSE {})

\* The snapshots read_snapshot can return for this vehicle.
DashSnapshots ==
    {[k \in Keys |-> CASE k = "rpm" -> a [] k = "speed" -> b
                       [] k = "coolant_temp" -> c [] k = "throttle_pos" -> d
                       [] k = "engine_load" -> e] :
        a \in Opt("rpm"), b \in Opt("speed"), c \in Opt("coolant_temp"),
        d \in Opt("throttle_pos"), e \in Opt("engine_load")}

\* What a refresh tick can read from the shared cell: a pair a publish of
\* the worker wrote in full.
TickInputs ==
    {<<"disconnected", EmptyDict>>} \cup {<<Classify(HasData(d)), d>> : d \in DashSnapshots}

RotationIntervals == {-1, 0, DefaultRotationInterval}

\* The installation as shipped on a vehicle that answers engine speed,
\* vehicle speed and coolant temperature, or an installation with one or two groups and any
\* rotation interval on a vehicle that answers vehicle speed and engine load.
InitDash ==
    /\ InitProgram
    /\ \/ ShippedConfig /\ supported = {"rpm", "speed", "coolant_temp"}
       \/ /\ SECONDARY_GROUPS \in {<<Group1>>, <<Group1, Group2>>}
          /\ ROTATION_INTERVAL_S \in RotationIntervals
          /\ supported = {"speed", "engine_load"}

RotateTimers == {t \in timers : t.cb = "_rotate"}

\* _ui_tick with the pair it reads given: the dispatch to show_*. (Its two
\* reads under the lock are UI_ReadState and UI_ReadData.)
UI_Tick ==
    /\ mainPc = "mainloop"
    /\ \E inp \in TickInputs :
        LET entering == inp[1] = "live" /\ _screen # "live"
            leaving  == inp[1] # "live" /\ _screen = "live"
        IN  /\ SetDash(Dispatch(Dash, inp[1], inp[2]))
            /\ tickRead' = inp[1]
            /\ liveFor' = IF entering \/ leaving THEN 0 ELSE liveFor
            /\ autoAdv' = IF entering \/ leaving THEN 0 ELSE autoAdv
            /\ entryIdx' = IF entering THEN _rotation_idx ELSE entryIdx
            /\ sinceUser' = IF entering \/ leaving THEN None ELSE sinceUser
    /\ UNCHANGED appVars /\ UNCHANGED configVars

\* Tk runs the pending _animate_disc callback.
Fire_animate_disc ==
    /\ mainPc = "mainloop"
    /\ \E t \in timers :
        /\ t.cb = "_animate_disc"
        /\ _anim_disc_phase < MaxFrames
        /\ SetDash(AnimateDisc([Dash EXCEPT !.timers = @ \ {t}]))
    /\ UNCHANGED appVars /\ UNCHANGED configVars /\ UNCHANGED dashHistVars

\* Tk runs the pending _animate_wait callback.
Fire_animate_wait ==
    /\ mainPc = "mainloop"
    /\ \E t \in timers :
        /\ t.cb = "_animate_wait"
        /\ _anim_wait_phase < MaxFrames
        /\ SetDash(AnimateWait([Dash EXCEPT !.timers = @ \ {t}]))
    /\ UNCHANGED appVars /\ UNCHANGED configVars /\ UNCHANGED dashHistVars

\* Tk runs a _rotate callback that is due.
Fire_rotate ==
    /\ mainPc = "mainloop"
    /\ \E t \in timers :
        /\ t.cb = "_rotate" /\ t.left = 0
        /\ SetDash(Rotate([Dash EXCEPT !.timers = @ \ {t}]))
    /\ autoAdv' = IF _screen = "live" THEN autoAdv + 1 ELSE autoAdv
    /\ sinceUser' = None
    /\ UNCHANGED appVars /\ UNCHANGED configVars
    /\ UNCHANGED <<tickRead, liveFor, entryIdx>>

\* A second passes: no _rotate callback is due (Tk runs a due callback
\* first). Time is followed only while a _rotate callback is pending.
Advance ==
    /\ mainPc = "mainloop"
    /\ RotateTimers # {}
    /\ \A t \in RotateTimers : t.left > 0
    /\ liveFor < MaxTime
    /\ timers' = {IF t.cb = "_rotate" THEN [t EXCEPT !.left = @ - 1] ELSE t : t \in timers}
    /\ liveFor' = IF _screen = "live" THEN liveFor + 1 ELSE liveFor
    /\ sinceUser' = IF sinceUser = None THEN None ELSE Some(sinceUser[1] + 1)
    /\ UNCHANGED <<_screen, packed, _anim_after, _rotation_after, _rotation_idx,
                   _live_data, _anim_disc_phase, _anim_disc_dots,
                   _anim_wait_phase, shown>>
    /\ UNCHANGED appVars /\ UNCHANGED configVars
    /\ UNCHANGED <<tickRead, autoAdv, entryIdx>>

\* The user's "cycle metric group" input (config.GPIO_BTN_CYCLE; its handler,
\* gpio_input.py, is not part of the sources): the advance of section 4.2 of
\* the specification, which is the operation the rotation timer triggers.
UserAdvance ==
    /\ mainPc = "mainloop"
    /\ Cardinality(RotateTimers) < MaxTimers
    /\ SetDash(Rotate(Dash))
    /\ sinceUser' = IF _screen = "live" THEN Some(0) ELSE sinceUser
    /\ UNCHANGED appVars /\ UNCHANGED configVars
    /\ UNCHANGED <<tickRead, liveFor, autoAdv, entryIdx>>

DashNext == UI_Tick \/ Fire_animate_disc \/ Fire_animate_wait \/ Fire_rotate \/ Advance

\* The presentation with every pair the shared cell can hold as tick input.
DashSpec == InitDash /\ [][DashNext]_vars

UserNext == DashNext \/ UserAdvance

\* Two groups rotating at the shipped interval, on a vehicle that answers
\* engine load.
InitUser ==
    /\ InitProgram
    /\ SECONDARY_GROUPS = <<Group1, Group2>>
    /\ ROTATION_INTERVAL_S = DefaultRotationInterval
    /\ supported = {"engine_load"}

\* The presentation with the user's group-advance input.
UserSpec == InitUser /\ [][UserNext]_vars

(* ---------------------------------------------------------------------- *)
(* Properties                                                              *)
(* ---------------------------------------------------------------------- *)

\* The pairing of section 3: Live iff some value is present; Disconnected
\* only with the empty snapshot.
PairConsistent(s, d) ==
    /\ (s = "live") <=> HasData(d)
    /\ (s = "disconnected") => (d = EmptyDict)

\* A pair as one publish writes it: (disconnected, {}), (waiting, every key
\* None) or (live, every key, some value present).
FullPair(s, d) ==
    \/ s = "disconnected" /\ d = EmptyDict
    \/ s = "waiting" /\ d = AllNone
    \/ s = "live" /\ DOMAIN d = Keys /\ HasData(d)

\* The supervisor is between the two assignments of a publish (lock held).
MidPublish == pc \in {"pub_disc_data", "publish_data"}

\* The step of _ui_tick that reads _state, and the one that copies _data.
UIReadsState == uiPc = "idle" /\ uiPc' = "read_data"
UIReadsData  == uiPc = "read_data" /\ uiPc' = "idle"

\* C1: whenever the supervisor is outside the critical section of a publish,
\* the shared pair has classification Live iff some value of the paired
\* snapshot is present, and Disconnected only with the empty snapshot.
C1_PairingInvariant == ~MidPublish => PairConsistent(_state, _data)

\* C1 witness: a Live pair has been published after a Disconnected one.
C1_Witness ==
    /\ pc = "log" /\ reconnected
    /\ _state = "live" /\ HasData(_data) /\ _data["rpm"] = None

\* C2: the pair a refresh tick obtains (the state it read, then the data it
\* copies under the same lock) is a pair one publish wrote in full, or the
\* initial pair: never the classification of one publish with the snapshot
\* of another.
C2_NoPartialRead == [][UIReadsData => FullPair(tick_state, _data)]_vars

\* C2 witness: the tick is between its two reads while the supervisor has a
\* different classification ready to publish and waits for the lock.
C2_Witness ==
    /\ uiPc = "read_data" /\ _lock = "ui" /\ tick_state = "live"
    /\ pc = "pub_disc"

\* C3: every read returns the pair most recently published in full (the
\* initial (disconnected, {}) before the first publish).
C3_ReadsLatest == [][UIReadsData => <<tick_state, _data>> = published]_vars

\* C3 witness: a tick is reading a pair that replaced an earlier, different
\* published pair (the screen still shows the older classification).
C3_Witness ==
    /\ uiPc = "read_data" /\ tick_state = "waiting" /\ _screen = "live"
    /\ published = <<"waiting", AllNone>>

\* connect() has returned False at least once since it last succeeded.
InFailedPeriod == fails >= 1

\* ... and the Disconnected publish that follows the first of these failures
\* has been completed.
FailurePublished ==
    \/ fails >= 2
    \/ fails = 1 /\ pc \notin {"pub_disc", "pub_disc_data"}

\* C4 as stated: over the whole period in which connect() has returned False
\* N >= 1 consecutive times, every read of the consumer observes Disconnected.
C4_Original == [][(UIReadsState /\ InFailedPeriod) => _state = "disconnected"]_vars

\* C4 amended: once the supervisor has completed the Disconnected publish
\* that follows the first of N consecutive failed connects, every read of the
\* consumer observes Disconnected until a connect succeeds.
C4_DisconnectedAfterPublish ==
    [][(UIReadsState /\ FailurePublished) => _state = "disconnected"]_vars

\* C4 witness: connect() has failed MaxFails times in a row after a Live
\* period (the screen still shows Live) and the tick has read Disconnected.
C4_Witness ==
    /\ fails = MaxFails /\ pc = "connect"
    /\ uiPc = "read_data" /\ tick_state = "disconnected" /\ _screen = "live"

\* The step of read_snapshot that queries the key CmdKeys[qi].
QueryStep == pc = "query" /\ qi' = qi + 1

\* C5: a query pass on a usable link queries every configured key, and the
\* step for one key sets that key's entry present exactly when its own query
\* returned a value, leaving the entries of the keys queried before untouched.
C5_PartialFailureIsolation ==
    /\ []((pc = "publish" /\ qi > 1) =>
            (qi = Len(CmdKeys) + 1 /\ DOMAIN snapshot = Keys))
    /\ [][QueryStep =>
            /\ CmdKeys[qi] \notin DOMAIN snapshot
            /\ DOMAIN snapshot' = DOMAIN snapshot \cup {CmdKeys[qi]}
            /\ (snapshot'[CmdKeys[qi]] # None) <=> (lastResp'[1] = "value")
            /\ lastResp'[1] = "value" => snapshot'[CmdKeys[qi]] = Some(lastResp'[2])
            /\ \A k \in DOMAIN snapshot : snapshot'[k] = snapshot[k]]_vars

\* C5 witness: a pass ended in which the first and the last key failed (the
\* last by an exception) and a key in between is present.
C5_Witness ==
    /\ pc = "publish" /\ qi = Len(CmdKeys) + 1
    /\ lastResp = <<"exc">>
    /\ snapshot["rpm"] = None /\ snapshot["speed"] = Some(45)
    /\ snapshot["engine_load"] = None

\* The snapshot of the engine-off scenario: rpm = 0, every other key absent.
RpmZeroOnly == [k \in Keys |-> IF k = "rpm" THEN Some(0) ELSE None]

\* C6 as stated: a cycle whose queries return rpm = 0 and nothing else
\* publishes Waiting.
C6_Original == (pc = "log" /\ snapshot = RpmZeroOnly) => published[1] = "waiting"

\* C6 amended: a cycle whose queries return rpm = 0 and nothing else
\* publishes Live with that snapshot, a magnitude of zero being a present value.
C6_RpmZeroIsLive ==
    (pc = "log" /\ snapshot = RpmZeroOnly) => published = <<"live", RpmZeroOnly>>

\* C6 witness: such a cycle has published.
C6_Witness == pc = "log" /\ snapshot = RpmZeroOnly /\ _state = "live"

\* C7: at the end of a poll cycle logger.log has been called exactly once,
\* with the snapshot published in the cycle, if the cycle published Live, and
\* not at all if it published Waiting or Disconnected.
C7_LogOnlyLive ==
    /\ logCalls <= 1
    /\ pc = "sleep_poll" =>
         IF published[1] = "live"
         THEN logCalls = 1 /\ logArg = published[2]
         ELSE logCalls = 0
    /\ pc \in {"pub_disc", "pub_disc_data", "sleep_reconnect"} => logCalls = 0

\* C7 witness: a Live cycle has logged the snapshot of the scenario
\* rpm = 2500, speed = 45, others absent.
C7_Witness ==
    /\ pc = "sleep_poll" /\ logCalls = 1
    /\ logArg = [k \in Keys |-> IF k = "rpm" THEN Some(2500)
                                ELSE IF k = "speed" THEN Some(45) ELSE None]
    /\ published = <<"live", logArg>>

\* C8: when logger.log has raised, the supervisor is at its per-cycle sleep,
\* the shared state still holds the (Live, snapshot) pair of the cycle, and
\* the next step of the supervisor is the top of the loop.
C8_LogFailureContained ==
    /\ [](logRaised =>
            /\ pc = "sleep_poll"
            /\ _state = "live" /\ _data = snapshot
            /\ published = <<"live", snapshot>>)
    /\ [][(logRaised /\ pc' # pc) => pc' \in {"loop", "killed"}]_vars

\* C8 witness: a write to the open log file failed in a Live cycle.
C8_Witness == logRaised /\ loggerOpen /\ _running /\ pc = "sleep_poll"

\* C9: the publish of the first cycle after a failed iteration, when rpm is
\* present, replaces a published Disconnected by Live.
C9_ReconnectDirectlyLive ==
    [][(pc = "publish_data" /\ pc' = "log" /\ reconnected /\ snapshot["rpm"] # None)
         => (published[1] = "disconnected" /\ published'[1] = "live")]_vars

\* C9 witness: such a publish has happened with rpm the only present key.
C9_Witness ==
    /\ pc = "log" /\ reconnected
    /\ snapshot["rpm"] = Some(2500) /\ snapshot["speed"] = None
    /\ published[1] = "live"

\* Shutdown has been signalled (_on_close) or the process has exited (Escape).
Stop == ~_running \/ mainPc = "exit"

\* C10: while shutdown is not signalled the supervisor never leaves its loop;
\* a failed connect leads to the completed Disconnected publish and the
\* reconnect sleep, and the sleep leads to another connect attempt.
C10_IndefiniteRetry ==
    /\ [](pc \in {"done", "crashed"} => ~_running)
    /\ (pc = "pub_disc") ~> ((pc = "sleep_reconnect" /\ _state = "disconnected") \/ Stop)
    /\ (pc = "sleep_reconnect") ~> (pc = "connect" \/ Stop)

\* C10 witness: another attempt is about to be made after MaxFails
\* consecutive failures, with shutdown not signalled.
C10_Witness == pc = "connect" /\ fails = MaxFails /\ _running /\ mainPc = "mainloop"

\* C11: on every path by which the application shuts down (the window close
\* handler _on_close, or Escape destroying the window) the adapter has been
\* disconnected and the log file closed when the process has exited.
C11_CleanupOnEveryExit ==
    mainPc = "exit" => (connection = "None" /\ ~loggerOpen)

\* One of the two teardown steps of _on_close: obd.disconnect() or
\* logger.close().
TeardownStep ==
    \/ mainPc = "close_disconnect" /\ mainPc' = "close_logger"
    \/ mainPc = "close_logger" /\ mainPc' = "close_destroy"

\* C12: the teardown steps of the shutdown path are taken only after the
\* supervisor has read the running flag as false at the top of its loop and
\* left it, never while it is inside a poll cycle.
C12_TeardownAfterWorkerStopped ==
    [][TeardownStep => pc = "done"]_vars

\* C13: after a refresh tick the display mode is the classification the tick
\* read, and from the first tick on exactly one of the three frames is
\* packed, the one of the display mode; before it none is.
C13_ModeMirrorsClassification ==
    /\ tickRead # "none" => _screen = tickRead
    /\ tickRead # "none" => (packed = {_screen} /\ Cardinality(packed) = 1)
    /\ tickRead = "none" => (_screen = "None" /\ packed = {})

\* C13 witness: the display has gone through Disconnected and Waiting (both
\* animations have run) and a tick that read Live has put up the live frame.
C13_Witness ==
    /\ tickRead = "live" /\ packed = {"live"}
    /\ _anim_disc_phase > 1 /\ _anim_wait_phase > 1

AnimTimers == {t \in timers : t.cb \in {"_animate_disc", "_animate_wait"}}

\* C14: at most one animation callback is pending and it is the one of the
\* current display mode; a _rotate callback is pending only on the Live
\* screen; and an animation counter or the group index is changed only by a
\* step taken on (or entering) the screen it belongs to.
C14_TimersBelongToMode ==
    /\ [](/\ Cardinality(AnimTimers) <= 1
          /\ \A t \in timers :
                /\ t.cb = "_animate_disc" => _screen = "disconnected"
                /\ t.cb = "_animate_wait" => _screen = "waiting"
                /\ t.cb = "_rotate" => _screen = "live")
    /\ [][/\ _anim_disc_phase' # _anim_disc_phase => _screen' = "disconnected"
          /\ _anim_wait_phase' # _anim_wait_phase => _screen' = "waiting"
          /\ _rotation_idx' # _rotation_idx => (_screen = "live" /\ _screen' = "live")]_vars

\* C14 witness: both animations have run, the display is Live and the only
\* pending callback of the dashboard is the rotation's.
C14_Witness ==
    /\ _screen = "live"
    /\ _anim_disc_phase > 1 /\ _anim_wait_phase > 1
    /\ Cardinality(timers) = 1 /\ RotateTimers # {}

\* C15: with a positive interval and two groups, on the Live screen one
\* _rotate callback is pending; after liveFor seconds of uninterrupted Live
\* the timer has advanced the index once per full interval (the advance of
\* the second that has just completed may still be due), each time to the
\* next index modulo the number of groups.
C15_AutomaticRotation ==
    (_screen = "live" /\ ROTATION_INTERVAL_S > 0 /\ Len(SECONDARY_GROUPS) = 2) =>
        /\ Cardinality(RotateTimers) = 1
        /\ \A t \in RotateTimers :
            /\ t.left > 0 =>
                /\ autoAdv = liveFor \div ROTATION_INTERVAL_S
                /\ t.left = ROTATION_INTERVAL_S - (liveFor % ROTATION_INTERVAL_S)
            /\ t.left = 0 =>
                /\ liveFor > 0 /\ liveFor % ROTATION_INTERVAL_S = 0
                /\ autoAdv = (liveFor \div ROTATION_INTERVAL_S) - 1
        /\ _rotation_idx = (entryIdx + autoAdv) % Len(SECONDARY_GROUPS)

\* C15 witness: two full intervals of Live have passed and the index has
\* advanced twice, back to where it was.
C15_Witness ==
    /\ _screen = "live" /\ Len(SECONDARY_GROUPS) = 2
    /\ liveFor = 2 * ROTATION_INTERVAL_S /\ autoAdv = 2
    /\ _rotation_idx = entryIdx

C17_RotationArming ==
    /\ [][(_screen # "live" /\ _screen' = "live") =>
            (({t \in timers' : t.cb = "_rotate"} # {})
               <=> (Len(SECONDARY_GROUPS) > 1 /\ ROTATION_INTERVAL_S > 0))]_vars
    /\ [][~(Len(SECONDARY_GROUPS) > 1 /\ ROTATION_INTERVAL_S > 0)
            => _rotation_idx' = _rotation_idx]_vars

\* C17 witness: the installation as shipped (one group, positive interval)
\* has entered Live from Waiting and no _rotate callback is pending.
C17_Witness ==
    /\ _screen = "live" /\ _anim_wait_phase > 1
    /\ Len(SECONDARY_GROUPS) = 1 /\ ROTATION_INTERVAL_S > 0
    /\ RotateTimers = {} /\ _rotation_idx = 0

\* What the user sees of the presentation, and the callbacks pending.
View(u) ==
    <<u._screen, u.packed, u.shown, u._rotation_idx, u._anim_disc_phase,
      u._anim_disc_dots, u._anim_wait_phase, u.timers>>

\* C18: in every state and for every pair a tick can read, dispatching on
\* the pair a second time leaves the display mode, the displayed values,
\* the group index and the pending callbacks as the first dispatch left them.
C18_RenderIdempotent ==
    \A inp \in TickInputs :
        LET once == Dispatch(Dash, inp[1], inp[2])
        IN  View(Dispatch(once, inp[1], inp[2])) = View(once)

\* C18 witness: a Live display showing a speed, on the second group, with
\* the rotation timer part-way through its interval.
C18_Witness ==
    /\ _screen = "live" /\ tickRead = "live"
    /\ _rotation_idx = 1 /\ shown.speed # NoSpeed
    /\ \E t \in RotateTimers : t.left > 0 /\ t.left < ROTATION_INTERVAL_S

\* C19: for every pair a tick can read the display mode after the dispatch
\* is the classification, whatever the values; a displayed engine speed is
\* coloured critical from RPM_CRIT, warning from RPM_WARN and normal below,
\* and a displayed coolant temperature likewise by its two thresholds.
C19_ThresholdsSelectColourOnly ==
    \A inp \in TickInputs :
        LET r    == Dispatch(Dash, inp[1], inp[2])
            rpm  == Get(inp[2], "rpm")
            cool == Get(inp[2], "coolant_temp")
        IN  /\ r._screen = inp[1]
            /\ r.packed = {inp[1]}
            /\ (inp[1] = "live" /\ rpm # None /\ rpm # Some(0)) =>
                  r.shown.rpm_fg = (IF rpm[1] >= 6500 THEN C_CRIT
                                    ELSE IF rpm[1] >= 5500 THEN C_WARN ELSE C_RPM)
            /\ (inp[1] = "live" /\ cool # None /\ r.shown.slots[1].title = "COOLANT") =>
                  r.shown.slots[1].fg = (IF cool[1] >= 105 THEN C_CRIT
                                         ELSE IF cool[1] >= 95 THEN C_WARN ELSE C_GOOD)

\* C19 witness: the Live screen showing a critical engine speed and a
\* warning coolant temperature.
C19_Witness ==
    /\ _screen = "live" /\ packed = {"live"}
    /\ _live_data["rpm"] = Some(6500) /\ shown.rpm_fg = C_CRIT
    /\ _live_data["coolant_temp"] = Some(95) /\ shown.slots[1].fg = C_WARN

\* The active secondary group.
ActiveGroup == SECONDARY_GROUPS[(_rotation_idx % Len(SECONDARY_GROUPS)) + 1]

\* C20: on the Live screen every slot of the active group whose key is
\* absent from the snapshot rendered shows the placeholder and an empty
\* bar; and rendering any snapshot over what is displayed now puts the
\* placeholder in every slot whose key that snapshot lacks.
C20_AbsentSecondaryShowsNoData ==
    /\ _screen = "live" =>
          \A i \in 1..3 :
              Get(_live_data, ActiveGroup[i][1]) = None =>
                  (shown.slots[i].text = NoValue /\ shown.slots[i].bar = EmptyBar)
    /\ \A d \in DashSnapshots :
          LET r == RefreshLive(Dash, d)
          IN  \A i \in 1..3 :
                  Get(d, ActiveGroup[i][1]) = None =>
                      (r.shown.slots[i].text = NoValue /\ r.shown.slots[i].bar = EmptyBar)

\* C20 witness: the Live screen rendering a snapshot with an engine speed
\* and without a coolant temperature: the coolant slot shows the placeholder.
C20_Witness ==
    /\ _screen = "live" /\ ActiveGroup[1][1] = "coolant_temp"
    /\ _live_data["rpm"] = Some(2500) /\ _live_data["coolant_temp"] = None
    /\ shown.slots[1].title = "COOLANT" /\ shown.slots[1].text = NoValue

\* A step of the Tk main thread: it moves in its event loop, in _ui_tick or
\* in _on_close.
MainThreadStep == mainPc' # mainPc \/ uiPc' # uiPc

\* C21: no step of the main thread changes the Device Client's connection
\* handle; only the worker thread (and the link itself) does.
C21_ClientOwnedByWorker ==
    [][MainThreadStep => connection' = connection]_vars

\* A step of the worker thread (the kill at process exit is not one).
WorkerStep == pc' # pc /\ pc' # "killed"

\* read_snapshot finds the client not connected: no handle, or a handle
\* whose is_connected() is false.
ReadsNotConnected ==
    \/ pc = "read_chk" /\ connection = "None"
    \/ pc = "read_isconn" /\ connection = "down"

\* C22: in an iteration whose connect failed no query has been issued, and
\* its publish is (Disconnected, empty); and a read_snapshot that finds the
\* client not connected issues no query and returns every key as None.
C22_NoQueryWhileDisconnected ==
    /\ [](pc \in {"pub_disc", "pub_disc_data", "sleep_reconnect"}
            => lastResp = <<"none">>)
    /\ [](pc = "sleep_reconnect" => published = <<"disconnected", EmptyDict>>)
    /\ [][(ReadsNotConnected /\ WorkerStep)
            => (pc' = "publish" /\ snapshot' = AllNone /\ lastResp' = lastResp)]_vars

\* C22 witness: the link dropped after ensure_connected answered true;
\* read_snapshot has returned all keys absent without a query.
C22_Witness ==
    /\ pc = "publish" /\ connection = "down" /\ snapshot = AllNone
    /\ lastResp = <<"none">> /\ _running

\* C23: the worker holds the lock only between the two assignments of a
\* publish and the main thread only between the two reads of a tick; a
\* lock that is held is released, and a worker waiting to publish gets the
\* lock (unless the process exits first).
C23_LockHeldBriefly ==
    /\ [](_lock = "worker" => pc \in {"pub_disc_data", "publish_data"})
    /\ [](_lock = "ui" => uiPc = "read_data")
    /\ (_lock = "worker") ~> (_lock # "worker")
    /\ (_lock = "ui") ~> (_lock # "ui")
    /\ (pc \in {"pub_disc", "publish"})
          ~> (pc \in {"pub_disc_data", "publish_data"} \/ mainPc = "exit")

\* C23 witness: the worker is about to publish while the tick holds the lock.
C23_Witness == pc = "publish" /\ _lock = "ui" /\ uiPc = "read_data" /\ _running

\* C24: when ensure_connected finds the client connected the worker goes on
\* to read_snapshot and the handle is left alone; connect() is reached only
\* through disconnect(), and whenever connect() is about to assign a new
\* handle none is held, so a handle is never replaced while it is open.
C24_EnsureLinkStep ==
    /\ [][(pc = "ensure_isconn" /\ connection = "up" /\ WorkerStep)
            => (pc' = "read_chk" /\ connection' = connection)]_vars
    /\ [][(pc' = "connect" /\ pc # "connect")
            => (pc = "disconnect" /\ connection' = "None")]_vars
    /\ [](pc = "connect" => connection = "None")

\* C24 witness: the link dropped after a Live publish; ensure_connected has
\* released the dead handle and is about to connect again.
C24_Witness ==
    /\ pc = "connect" /\ connection = "None"
    /\ published[1] = "live" /\ fails = 0 /\ _running

\* The close handler has run its teardown (flag cleared, client
\* disconnected, logger closed), or the process has exited after it.
AfterClose == mainPc \in {"close_destroy", "exit"} /\ ~_running /\ ~loggerOpen

\* The worker connects, queries, publishes or calls the logger.
WorkerActs ==
    \/ WorkerStep /\ pc \in {"connect", "query", "pub_disc", "pub_disc_data",
                             "publish", "publish_data"}
    \/ logCalls' > logCalls

\* C25: once the close handler has run its teardown the worker connects,
\* queries, publishes and logs no more, and the client stays disconnected.
C25_ShutdownIsFinal ==
    /\ [][AfterClose => ~WorkerActs]_vars
    /\ [](AfterClose => connection = "None")

\* In Live mode the speed and rpm labels show their placeholder exactly when
\* the key is absent from the snapshot rendered.
PlaceholderIffAbsent ==
    /\ shown.speed = NoSpeed <=> Get(_live_data, "speed") = None
    /\ shown.rpm = NoRpm <=> Get(_live_data, "rpm") = None

\* C26: on the Live screen the speed and rpm labels show the placeholder if
\* and only if the key's value is absent; a present value, zero included,
\* is shown as a number.
C26_PresentValuesRendered ==
    _screen = "live" => PlaceholderIffAbsent

====
